---------------------------- MODULE Spec2Model ----------------------------
(***************************************************************************)
(* Model of temperament-tuner: the Temperament engine of temperaments.py   *)
(* (note table, frequency table, property setters, the nine concrete       *)
(* temperament definitions) and the capture loop of tuner.py (Tuner.loop   *)
(* and the pitch-matching part of Tuner.graph).                            *)
(*                                                                         *)
(* Numbers.  The engine multiplies and divides ratios, powers of two and   *)
(* the reference frequency.  A value is kept in the exact form             *)
(*        n / d * 2^(e / CentScale)      (n, d odd and coprime)            *)
(* so that ratios given as fractions (16/15) and ratios given in cents     *)
(* (2^(81.427/1200)) are both represented without rounding: e counts       *)
(* thousandths of a cent, 1 200 000 to the octave.  The engine is thus     *)
(* modelled in real arithmetic; the last-bit rounding of IEEE doubles is   *)
(* not modelled.  The tuner compares frequencies and takes a logarithm;    *)
(* there a frequency is a fixed-point number of 2^-16 Hz and log2 is       *)
(* computed digit by digit on a 28-bit fraction (error below 0.001 cent).  *)
(***************************************************************************)
EXTENDS Integers, Sequences, FiniteSets

VARIABLES
    \* ---- the Temperament object ----
    constructed,     \* TRUE once the constructor has returned normally
    name,            \* _name
    reference_note,  \* _reference_note (whatever value was supplied)
    reference_freq,  \* _reference_freq
    min_octave,      \* _min_octave
    max_octave,      \* _max_octave
    ratios,          \* _ratios
    cents,           \* _cents
    notes,           \* _notes: sequence of Note objects
    err,             \* exception raised by the last operation, "" if none
    \* ---- the Tuner object and its audio stream ----
    arrivals,        \* every chunk the audio device has delivered, in order
    readPos,         \* number of chunks stream.read has returned
    data,            \* _data: accumulated samples
    best_freq,       \* _best_freq: history of peak frequencies
    running,         \* the while-loop of Tuner.loop is still executing
    graph_out,       \* locals of the last Tuner.graph call
    loop_err         \* exception that ended the loop, "" if none

tvars == <<constructed, name, reference_note, reference_freq, min_octave,
           max_octave, ratios, cents, notes, err>>
uvars == <<arrivals, readPos, data, best_freq, running, graph_out, loop_err>>
vars == <<tvars, uvars>>

-----------------------------------------------------------------------------
(* Bounds of the model *)

\* octaves used as inputs: DefaultRefOctave .. DefaultRefOctave + OctSpan
OctSpan == 1
\* number of chunks the audio device delivers
MaxChunks == 3
\* samples per chunk (Tuner.chunk)
ChunkLen == 2

(* Program constants *)

DefaultRefOctave == 4
DefaultRefFreq == 440
AltRefFreq == 415
CentsPerOctave == 1200
\* thousandths of a cent in an octave: the unit of the e field
CentScale == 1200000
\* start_thresh = 0.1, in hundredths of full scale
StartThresh == 10

-----------------------------------------------------------------------------
(* Exact values  n / d * 2^(e / CentScale) *)

RECURSIVE GCD(_, _)
GCD(a, b) == IF b = 0 THEN a ELSE GCD(b, a % b)

RECURSIVE Twos(_)
Twos(x) == IF x % 2 = 0 THEN 1 + Twos(x \div 2) ELSE 0

RECURSIVE TwoTo(_)
TwoTo(k) == IF k = 0 THEN 1 ELSE 2 * TwoTo(k - 1)

Canon(n, d, e) ==
    LET g == GCD(n, d)
        n1 == n \div g
        d1 == d \div g
        tn == Twos(n1)
        td == Twos(d1)
    IN [n |-> n1 \div TwoTo(tn), d |-> d1 \div TwoTo(td),
        e |-> e + (tn - td) * CentScale]

Frac(n, d) == Canon(n, d, 0)
Num(n) == Canon(n, 1, 0)
\* 2 ** k for an integer k (positive or negative)
Pow2(k) == [n |-> 1, d |-> 1, e |-> k * CentScale]
\* 2 ** (c / 1200) for c given in thousandths of a cent
Pow2Cents(mc) == [n |-> 1, d |-> 1, e |-> mc]
Mul(a, b) == Canon(a.n * b.n, a.d * b.d, a.e + b.e)
Div(a, b) == Canon(a.n * b.d, a.d * b.n, a.e - b.e)

\* the frequency attribute of a Note that has not been computed (None)
None == [n |-> 0, d |-> 0, e |-> 0]


-----------------------------------------------------------------------------
(* temperaments.py: TONES, Note *)

TONES == <<"C", "C#", "D", "D#", "E", "F", "F#", "G", "G#", "A", "A#", "B">>

\* Note(tone, octave): a Note whose frequency is still None
Note(tone, octave) == [type |-> "Note", tone |-> tone, octave |-> octave]

\* a value that is not a Note: the str whose text is tone followed by octave
Str(tone, octave) == [type |-> "str", tone |-> tone, octave |-> octave]

\* Note.__repr__: '%s%s' % (tone, octave); a str is its own text
Repr(x) == <<x.tone, x.octave>>

\* Note.__eq__: the representations are compared, the frequency is not
NoteEq(note, val) == Repr(note) = Repr(val)

-----------------------------------------------------------------------------
(* temperaments.py: the tables of the nine concrete temperaments *)

\* np.arange(0, 1200, 100), in thousandths of a cent
EqualCents ==
    <<0, 100000, 200000, 300000, 400000, 500000,
      600000, 700000, 800000, 900000, 1000000, 1100000>>

JustRatios ==
    <<Frac(1, 1), Frac(16, 15), Frac(9, 8), Frac(6, 5), Frac(5, 4), Frac(4, 3),
      Frac(64, 45), Frac(3, 2), Frac(8, 5), Frac(5, 3), Frac(19, 9), Frac(15, 8)>>

PythagoreanRatios ==
    <<Frac(1, 1), Frac(256, 243), Frac(9, 8), Frac(32, 27), Frac(81, 64), Frac(4, 3),
      Frac(729, 512), Frac(3, 2), Frac(128, 81), Frac(27, 16), Frac(16, 9),
      Frac(243, 128)>>

MeanToneCents ==
    <<0, 81427, 194135, 306842, 388270, 502933,
      583383, 697067, 780450, 891202, 1004888, 1085338>>

WellCents ==
    <<0, 90225, 193484, 294135, 386968, 498045,
      588270, 696742, 792180, 890226, 996090, 1088923>>

RameauCents ==
    <<0, 84360, 192180, 288270, 384360, 503910,
      582405, 696090, 786315, 888270, 996090, 1080450>>

WerckmeisterICents ==
    <<0, 90225, 192180, 294135, 390225, 498045,
      588270, 696090, 792180, 888270, 996090, 1092180>>

KirnbergerIIICents ==
    <<0, 90225, 203910, 294135, 386315, 498045,
      590225, 701955, 792180, 884360, 996090, 1088270>>

VallottiYoungCents ==
    <<0, 94000, 196000, 278000, 392000, 475000,
      588000, 696000, 790000, 894000, 975000, 1090000>>

ConcreteClasses ==
    {"EqualTemperament", "JustTemperament", "PythagoreanTemperament",
     "MeanToneTemperament", "WellTemperament", "RameauTemperament",
     "WerckmeisterITemperament", "KirnbergerIIITemperament",
     "VallottiYoungTemperament"}

Classes == {"Temperament"} \cup ConcreteClasses

\* the classes whose constructor assigns self.ratios (the others assign self.cents)
RatioClasses == {"JustTemperament", "PythagoreanTemperament"}

\* the table a subclass constructor assigns
TableOf(c) ==
    CASE c = "EqualTemperament" -> EqualCents
      [] c = "JustTemperament" -> JustRatios
      [] c = "PythagoreanTemperament" -> PythagoreanRatios
      [] c = "MeanToneTemperament" -> MeanToneCents
      [] c = "WellTemperament" -> WellCents
      [] c = "RameauTemperament" -> RameauCents
      [] c = "WerckmeisterITemperament" -> WerckmeisterICents
      [] c = "KirnbergerIIITemperament" -> KirnbergerIIICents
      [] c = "VallottiYoungTemperament" -> VallottiYoungCents
      [] OTHER -> <<>>

-----------------------------------------------------------------------------
(* temperaments.py: conversions between ratios and cents *)

\* a cent value 1200 * log2(ln / ld) + mc / 1000
CentVal(mc) == [ln |-> 1, ld |-> 1, mc |-> mc]

\* 1200 * np.log2(ratios), element by element
RatiosToCents(rs) ==
    [i \in 1..Len(rs) |-> [ln |-> rs[i].n, ld |-> rs[i].d, mc |-> rs[i].e]]

\* 2 ** (cents / 1200), element by element
CentsToRatios(cs) ==
    [i \in 1..Len(cs) |-> Mul(Frac(cs[i].ln, cs[i].ld), Pow2Cents(cs[i].mc))]

-----------------------------------------------------------------------------
(* temperaments.py: Temperament._make_notes *)

RECURSIVE make_notes_loop(_, _, _, _, _, _)
make_notes_loop(acc, i, octave, maxO, ref, rfreq) ==
    IF octave < maxO + 1
    THEN LET fresh == [tone |-> TONES[i + 1], octave |-> octave]
             new_note == [tone |-> fresh.tone, octave |-> octave,
                          frequency |-> IF NoteEq(fresh, ref) THEN rfreq ELSE None]
         IN IF i + 1 = Len(TONES)
            THEN make_notes_loop(Append(acc, new_note), 0, octave + 1, maxO, ref, rfreq)
            ELSE make_notes_loop(Append(acc, new_note), i + 1, octave, maxO, ref, rfreq)
    ELSE acc

make_notes(minO, maxO, ref, rfreq) == make_notes_loop(<<>>, 0, minO, maxO, ref, rfreq)

-----------------------------------------------------------------------------
(* temperaments.py: Temperament._calculate_base_freq, _calculate_frequencies *)

\* list.index: position (from 1) of the first note equal to val, 0 if there is none
Index(ns, val) ==
    IF \E k \in 1..Len(ns) : NoteEq(ns[k], val)
    THEN CHOOSE k \in 1..Len(ns) :
            /\ NoteEq(ns[k], val)
            /\ \A j \in 1..(k - 1) : ~NoteEq(ns[j], val)
    ELSE 0

\* the base frequency, or the exception the computation raises
calculate_base_freq(ns, rs, ref, rfreq) ==
    IF Index(ns, ref) = 0
    THEN [err |-> "ValueError: not in list", val |-> None]
    ELSE IF Len(rs) = 0
    THEN [err |-> "ZeroDivisionError", val |-> None]
    ELSE IF ref.type # "Note"
    THEN [err |-> "AttributeError: octave", val |-> None]
    ELSE LET ref_idx == (Index(ns, ref) - 1) % Len(rs)
             oct_ratio == Pow2(ns[1].octave - ref.octave)
         IN [err |-> "", val |-> Div(Mul(oct_ratio, rfreq), rs[ref_idx + 1])]

\* faulty variant of note_frequency that leaves out 2**oct_diff; C5 must not
\* survive it
note_frequency_no_octave(rs, k, first) == Mul(rs[(k % Len(rs)) + 1], first)

\* the frequency the loop gives the note at position k (from 0); `first` is what
\* notes[0].frequency holds when the note is reached
note_frequency(rs, k, first) ==
    LET i == k % Len(rs)
        oct_diff == k \div Len(rs)
        ratio == Mul(rs[i + 1], Pow2(oct_diff))
    IN Mul(ratio, first)

\* the notes after _calculate_frequencies, or the exception it raises (the notes
\* are untouched then: the base frequency is computed before any assignment)
calculate_frequencies(ns, rs, ref, rfreq) ==
    LET base == calculate_base_freq(ns, rs, ref, rfreq)
    IN IF base.err # ""
       THEN [err |-> base.err, notes |-> ns]
       ELSE LET first == note_frequency(rs, 0, base.val)
            IN [err |-> "",
                notes |-> [k \in 1..Len(ns) |->
                             [ns[k] EXCEPT !.frequency =
                                IF k = 1 THEN first
                                ELSE note_frequency(rs, k - 1, first)]]]

\* the frequencies property
frequencies == [k \in 1..Len(notes) |-> notes[k].frequency]

-----------------------------------------------------------------------------
(* Inputs *)

Octaves == DefaultRefOctave..(DefaultRefOctave + OctSpan)

\* reference notes supplied by callers: A in each of the octaves and in the
\* octave above them, C in the default octave, and a value that is not a Note
RefNoteArgs ==
    {Note("A", o) : o \in Octaves \cup {DefaultRefOctave + OctSpan + 1}}
        \cup {Note("C", DefaultRefOctave), Str("A", DefaultRefOctave)}
RefFreqArgs == {Num(DefaultRefFreq), Num(AltRefFreq)}

\* tables callers assign to ratios and to cents: 5-limit ratios with a minor
\* seventh of 16/9, and twelve equal steps
UserRatios == [JustRatios EXCEPT ![11] = Frac(16, 9)]
UserCents == EqualCents

-----------------------------------------------------------------------------
(* temperaments.py: Temperament.__init__ and the subclass constructors *)

\* the fields after Temperament.__init__
BaseInit(rn, rf, lo, hi) ==
    [name |-> "", reference_note |-> rn, reference_freq |-> rf,
     min_octave |-> lo, max_octave |-> hi,
     notes |-> make_notes(lo, hi, rn, rf),
     ratios |-> <<>>, cents |-> <<>>, err |-> ""]

\* the fields after the ratios setter ran on fields f
AssignRatios(f, table) ==
    LET r == calculate_frequencies(f.notes, table, f.reference_note, f.reference_freq)
    IN [f EXCEPT !.ratios = table, !.cents = RatiosToCents(table),
                 !.notes = r.notes, !.err = r.err]

\* the fields after the cents setter ran on fields f (table in thousandths of a cent)
AssignCents(f, table) ==
    LET cs == [i \in 1..Len(table) |-> CentVal(table[i])]
        rs == CentsToRatios(cs)
        r == calculate_frequencies(f.notes, rs, f.reference_note, f.reference_freq)
    IN [f EXCEPT !.cents = cs, !.ratios = rs, !.notes = r.notes, !.err = r.err]

\* the fields when the constructor of class c returns or raises
Construct(c, rn, rf, lo, hi) ==
    LET b == BaseInit(rn, rf, lo, hi)
    IN IF c = "Temperament" THEN b
       ELSE IF c = "JustTemperament"
       THEN AssignRatios([b EXCEPT !.name = "Just"], TableOf(c))
       ELSE IF c \in RatioClasses
       THEN AssignRatios(b, TableOf(c))
       ELSE AssignCents(b, TableOf(c))

FieldsAre(f) ==
    /\ name = f.name
    /\ reference_note = f.reference_note
    /\ reference_freq = f.reference_freq
    /\ min_octave = f.min_octave
    /\ max_octave = f.max_octave
    /\ notes = f.notes
    /\ ratios = f.ratios
    /\ cents = f.cents
    /\ err = f.err

Fields ==
    [name |-> name, reference_note |-> reference_note,
     reference_freq |-> reference_freq, min_octave |-> min_octave,
     max_octave |-> max_octave, notes |-> notes, ratios |-> ratios,
     cents |-> cents, err |-> err]

\* the locals of graph before its first call
NoGraph ==
    [called |-> FALSE, printed |-> FALSE, freq |-> 0, desired_idx |-> 0,
     desired_freq |-> 0, cents |-> 0]

\* no Tuner runs while the Temperament is exercised on its own
TunerIdle ==
    /\ arrivals = <<>>
    /\ readPos = 0
    /\ data = <<>>
    /\ best_freq = <<>>
    /\ running = FALSE
    /\ graph_out = NoGraph
    /\ loop_err = ""

\* a Temperament (or a subclass) has been constructed with some arguments
Init ==
    /\ \E c \in Classes, rn \in RefNoteArgs, rf \in RefFreqArgs,
          lo \in Octaves, hi \in Octaves :
            /\ lo <= hi
            /\ FieldsAre(Construct(c, rn, rf, lo, hi))
    /\ constructed = (err = "")
    /\ TunerIdle

-----------------------------------------------------------------------------
(* temperaments.py: the property setters *)

\* reference_note = note
SetReferenceNote(note) ==
    /\ constructed
    /\ IF note.type # "Note"
       THEN /\ err' = "ValueError: not a Note"
            /\ UNCHANGED <<reference_note, notes>>
       ELSE LET r == calculate_frequencies(notes, ratios, note, reference_freq)
            IN /\ reference_note' = note
               /\ notes' = r.notes
               /\ err' = r.err
    /\ UNCHANGED <<constructed, name, reference_freq, min_octave, max_octave,
                   ratios, cents, uvars>>

\* reference_freq = freq
SetReferenceFreq(freq) ==
    /\ constructed
    /\ reference_freq' = freq
    /\ LET r == calculate_frequencies(notes, ratios, reference_note, freq)
       IN /\ notes' = r.notes
          /\ err' = r.err
    /\ UNCHANGED <<constructed, name, reference_note, min_octave, max_octave,
                   ratios, cents, uvars>>

\* what the octave setters keep of the list _make_notes() returns
KeepNotes(old, made) == old

\* min_octave = o: _make_notes() is called and its result is dropped
SetMinOctave(o) ==
    /\ constructed
    /\ o <= max_octave
    /\ min_octave' = o
    /\ LET ns == KeepNotes(notes, make_notes(o, max_octave, reference_note,
                                              reference_freq))
           r == calculate_frequencies(ns, ratios, reference_note, reference_freq)
       IN /\ notes' = r.notes
          /\ err' = r.err
    /\ UNCHANGED <<constructed, name, reference_note, reference_freq,
                   max_octave, ratios, cents, uvars>>

\* max_octave = o: _make_notes() is called and its result is dropped
SetMaxOctave(o) ==
    /\ constructed
    /\ min_octave <= o
    /\ max_octave' = o
    /\ LET ns == KeepNotes(notes, make_notes(min_octave, o, reference_note,
                                              reference_freq))
           r == calculate_frequencies(ns, ratios, reference_note, reference_freq)
       IN /\ notes' = r.notes
          /\ err' = r.err
    /\ UNCHANGED <<constructed, name, reference_note, reference_freq,
                   min_octave, ratios, cents, uvars>>

\* ratios = table
SetRatios(table) ==
    /\ constructed
    /\ LET f == AssignRatios(Fields, table)
       IN /\ ratios' = f.ratios
          /\ cents' = f.cents
          /\ notes' = f.notes
          /\ err' = f.err
    /\ UNCHANGED <<constructed, name, reference_note, reference_freq,
                   min_octave, max_octave, uvars>>

\* cents = table
SetCents(table) ==
    /\ constructed
    /\ LET f == AssignCents(Fields, table)
       IN /\ ratios' = f.ratios
          /\ cents' = f.cents
          /\ notes' = f.notes
          /\ err' = f.err
    /\ UNCHANGED <<constructed, name, reference_note, reference_freq,
                   min_octave, max_octave, uvars>>

Next ==
    \/ \E note \in RefNoteArgs : SetReferenceNote(note)
    \/ \E freq \in RefFreqArgs : SetReferenceFreq(freq)
    \/ \E o \in Octaves : SetMinOctave(o)
    \/ \E o \in Octaves : SetMaxOctave(o)
    \/ SetRatios(UserRatios)
    \/ SetCents(UserCents)

Spec == Init /\ [][Next]_vars

-----------------------------------------------------------------------------
(* Floating-point stand-in used by the tuner: fixed-point numbers *)

\* 1.0 on the 28-bit fraction scale
FixOne == TwoTo(28)
\* 1 Hz on the frequency scale (2^-16 Hz units)
HzOne == TwoTo(16)
\* one cent and one octave in the unit of a deviation (1/100000 cent)
DevPerCent == 100000
DevPerOctave == CentsPerOctave * DevPerCent

\* floor(a * b / c) without leaving 32 bits: [q, r] with a * b = q * c + r
RECURSIVE MulDivQR(_, _, _)
MulDivQR(a, b, c) ==
    IF b = 0 THEN [q |-> 0, r |-> 0]
    ELSE LET h == MulDivQR(a, b \div 2, c)
             t == 2 * h.r + (b % 2) * a
         IN [q |-> 2 * h.q + t \div c, r |-> t % c]

MulDiv(a, b, c) == MulDivQR(a, b, c).q

\* floor(a * b / half^2), the product formed from the halves of a and b
MulShift(a, b, half) ==
    LET ah == a \div half
        al == a % half
        bh == b \div half
        bl == b % half
    IN ah * bh + (ah * bl + al * bh + (al * bl) \div half) \div half

\* floor(a * b / FixOne) for a, b < 2 * FixOne
MulFix(a, b) == MulShift(a, b, TwoTo(14))

\* 2^(1/2), 2^(1/4), 2^(1/8), ... on the 28-bit fraction scale
RootsOfTwo ==
    <<379625062, 319225354, 292730940, 280320108, 274313427, 271358526,
      269893033, 269163258, 268799110, 268617221, 268526323, 268480885,
      268458170, 268446812, 268441134, 268438295, 268436875, 268436165,
      268435810, 268435633, 268435544, 268435500, 268435478, 268435467>>

\* 2^(f / CentScale) for 0 <= f < CentScale, on the 28-bit fraction scale
RECURSIVE Exp2Bits(_, _, _)
Exp2Bits(f, i, acc) ==
    IF i > Len(RootsOfTwo) \/ f = 0 THEN acc
    ELSE IF 2 * f >= CentScale
    THEN Exp2Bits(2 * f - CentScale, i + 1, MulFix(acc, RootsOfTwo[i]))
    ELSE Exp2Bits(2 * f, i + 1, acc)

Exp2Frac(f) == Exp2Bits(f, 1, FixOne)

\* the float an exact value is, in units of 2^-16 Hz
HzFix(v) ==
    LET o == v.e \div CentScale
        m == Exp2Frac(v.e % CentScale)
    IN IF o <= 12
       THEN MulDiv(m, v.n, v.d * TwoTo(12 - o))
       ELSE MulDiv(m, v.n * TwoTo(o - 12), v.d)

\* the integer k with d * 2^k <= p < d * 2^(k+1), for p, d > 0
RECURSIVE ILog2(_, _)
ILog2(p, d) ==
    IF p < d THEN ILog2(2 * p, d) - 1
    ELSE IF p >= 2 * d THEN ILog2(p, 2 * d) + 1
    ELSE 0

\* the fraction bits of log2(x / FixOne), FixOne <= x < 2 * FixOne, as an integer
RECURSIVE Log2Bits(_, _, _)
Log2Bits(x, i, acc) ==
    IF i > Len(RootsOfTwo) THEN acc
    ELSE LET sq == MulFix(x, x)
         IN IF sq >= 2 * FixOne
            THEN Log2Bits(sq \div 2, i + 1, 2 * acc + 1)
            ELSE Log2Bits(sq, i + 1, 2 * acc)

\* 1200 * np.log2(p / d) for p, d > 0, in units of 1/100000 cent
Log2Dev(p, d) ==
    LET k == ILog2(p, d)
        pn == IF k < 0 THEN p * TwoTo(0 - k) ELSE p
        dn == IF k > 0 THEN d * TwoTo(k) ELSE d
        m == MulDiv(pn, FixOne, dn)
        bits == Log2Bits(m, 1, 0)
    IN k * DevPerOctave + MulShift(bits, DevPerOctave, TwoTo(Len(RootsOfTwo) \div 2))

\* int(x): truncation toward zero, to whole cents
IntCents(dev) ==
    IF dev >= 0 THEN dev \div DevPerCent ELSE 0 - ((0 - dev) \div DevPerCent)

\* a < b for exact values a, b > 0
Less(a, b) ==
    IF a.n = b.n /\ a.d = b.d THEN a.e < b.e
    ELSE IF (a.e - b.e) % CentScale = 0
    THEN LET k == (a.e - b.e) \div CentScale
         IN IF k >= 0
            THEN a.n * b.d * TwoTo(k) < b.n * a.d
            ELSE a.n * b.d < b.n * a.d * TwoTo(0 - k)
    ELSE HzFix(a) < HzFix(b)

-----------------------------------------------------------------------------
(* tuner.py: inputs *)

\* a chunk of ChunkLen samples, all of amplitude a (hundredths of full scale)
Uniform(a) == [i \in 1..ChunkLen |-> a]

\* chunks the audio device delivers: quiet, loud, a negative swing only, and
\* quiet samples ending in one loud sample
Chunks ==
    {Uniform(5), Uniform(20), Uniform(0 - 20),
     [i \in 1..ChunkLen |-> IF i = ChunkLen THEN 20 ELSE 5]}

\* peak frequencies the spectral transform may report, in Hz
PeakHz == {0, 435, 445}
PeakFreqs == {h * HzOne : h \in PeakHz}

\* classes of the temperament the Tuner is given (JustTemperament by default)
TunerClasses == {"JustTemperament", "EqualTemperament"}

-----------------------------------------------------------------------------
(* tuner.py: Tuner.graph, the pitch-matching lines *)

Abs(x) == IF x < 0 THEN 0 - x ELSE x

\* audio.max()
SeqMax(s) == CHOOSE m \in {s[i] : i \in 1..Len(s)} : \A i \in 1..Len(s) : s[i] <= m

\* self.temperament.frequencies as floats, each with its position (from 1)
TableHz == {[idx |-> k, hz |-> HzFix(notes[k].frequency)] : k \in 1..Len(notes)}

\* np.abs(table - freq).argmin(): the entry nearest to freq, the first of them
\* when several are equally near
ArgMin(table, freq) ==
    CHOOSE x \in table :
        \A y \in table :
            \/ Abs(x.hz - freq) < Abs(y.hz - freq)
            \/ Abs(x.hz - freq) = Abs(y.hz - freq) /\ x.idx <= y.idx

\* int(1200 * np.log2(freq / desired_freq)): the cents, or the exception int()
\* raises on an infinity (OverflowError) or a nan (ValueError)
CentsOrError(freq, desired_freq) ==
    IF desired_freq = 0
    THEN [err |-> IF freq = 0 THEN "ValueError: nan" ELSE "OverflowError: inf",
          cents |-> 0]
    ELSE IF freq = 0
    THEN [err |-> "OverflowError: inf", cents |-> 0]
    ELSE IF desired_freq < 0
    THEN [err |-> "ValueError: nan", cents |-> 0]
    ELSE [err |-> "", cents |-> IntCents(Log2Dev(freq, desired_freq))]

\* faulty variant of best_freq_append that overwrites the history; C9 must not
\* survive it
best_freq_overwrite(freq) == <<freq>>

\* self._best_freq.append(freq)
best_freq_append(freq) == Append(best_freq, freq)

\* lines 143-160 of graph for the peak frequency freq: the history after the
\* call, the locals, and the exception raised ("" if none)
Graph(freq) ==
    LET desired == ArgMin(TableHz, freq)
        desired_idx == desired.idx
        desired_freq == desired.hz
        c == CentsOrError(freq, desired_freq)
    IN [best_freq |-> best_freq_append(freq),
        err |-> c.err,
        out |-> [called |-> TRUE, printed |-> c.err = "", freq |-> freq,
                 desired_idx |-> desired_idx, desired_freq |-> desired_freq,
                 cents |-> c.cents]]

-----------------------------------------------------------------------------
(* tuner.py: Tuner.__init__ and Tuner.loop *)

\* a Tuner has been constructed around a concrete temperament and loop() entered
TunerInit ==
    /\ \E c \in TunerClasses :
            FieldsAre(Construct(c, Note("A", DefaultRefOctave), Num(DefaultRefFreq),
                                DefaultRefOctave, DefaultRefOctave + OctSpan))
    /\ constructed = TRUE
    /\ arrivals = <<>>
    /\ readPos = 0
    /\ data = <<>>
    /\ best_freq = <<>>
    /\ running = TRUE
    /\ graph_out = NoGraph
    /\ loop_err = ""

\* the audio device delivers one more chunk
Arrive(chunk) ==
    /\ Len(arrivals) < MaxChunks
    /\ arrivals' = Append(arrivals, chunk)
    /\ UNCHANGED <<tvars, readPos, data, best_freq, running, graph_out, loop_err>>

\* one iteration of the while-loop: stream.read returns the oldest unread chunk;
\* peak is the frequency the spectral transform reports for the buffer
LoopIteration(peak) ==
    /\ running
    /\ readPos < Len(arrivals)
    /\ readPos' = readPos + 1
    /\ LET audio == arrivals[readPos + 1]
       IN IF SeqMax(audio) > StartThresh
          THEN LET g == Graph(peak)
               IN /\ data' = data \o audio
                  /\ best_freq' = g.best_freq
                  /\ graph_out' = g.out
                  /\ loop_err' = g.err
                  /\ running' = (g.err = "")
          ELSE /\ data' = <<>>
               /\ best_freq' = <<>>
               /\ UNCHANGED <<graph_out, loop_err, running>>
    /\ UNCHANGED <<tvars, arrivals>>

\* KeyboardInterrupt while the loop waits in stream.read
Interrupt ==
    /\ running
    /\ running' = FALSE
    /\ UNCHANGED <<tvars, arrivals, readPos, data, best_freq, graph_out, loop_err>>

TunerNext ==
    \/ \E chunk \in Chunks : Arrive(chunk)
    \/ \E peak \in PeakFreqs : LoopIteration(peak)
    \/ Interrupt

TunerSpec == TunerInit /\ [][TunerNext]_vars

-----------------------------------------------------------------------------
(* Claims about the Temperament engine (checked under Spec) *)

\* position (from 0) of a tone in TONES
PitchClass(tone) == CHOOSE i \in 0..(Len(TONES) - 1) : TONES[i + 1] = tone

\* the table a full recomputation from the current fields gives: one entry per
\* note of min_octave..max_octave
ExpectedFrequencies ==
    LET r == PitchClass(reference_note.tone)
        baseFreq == Div(Mul(Pow2(min_octave - reference_note.octave), reference_freq),
                        ratios[r + 1])
    IN [k \in 1..(Len(TONES) * (max_octave - min_octave + 1)) |->
          Mul(Mul(ratios[((k - 1) % Len(TONES)) + 1], Pow2((k - 1) \div Len(TONES))),
              baseFreq)]

\* C1: when an assignment to reference_note, reference_freq, min_octave,
\* max_octave, ratios or cents has returned, frequencies equals the full
\* recomputation from the current fields, with one entry per note of
\* min_octave..max_octave.
C1_FrequenciesAreFullRecomputation ==
    (constructed /\ err = "" /\ ratios # <<>> /\ reference_note.type = "Note")
        => frequencies = ExpectedFrequencies

\* C2: notes has 12 * (max_octave - min_octave + 1) entries, octave by octave
\* from min_octave to max_octave with the tones C..B in table order.
C2_NotesCoverOctaveRange ==
    /\ Len(notes) = Len(TONES) * (max_octave - min_octave + 1)
    /\ \A k \in 1..Len(notes) :
          /\ notes[k].tone = TONES[((k - 1) % Len(TONES)) + 1]
          /\ notes[k].octave = min_octave + (k - 1) \div Len(TONES)

\* C3: on a temperament with a ratio table, whenever the reference note lies in
\* min_octave..max_octave, the note with its tone and octave has exactly the
\* frequency reference_freq.
C3_ReferenceNoteHasReferenceFreq ==
    (/\ constructed
     /\ ratios # <<>>
     /\ reference_note.type = "Note"
     /\ min_octave <= reference_note.octave
     /\ reference_note.octave <= max_octave)
        => \E k \in 1..Len(notes) :
              /\ NoteEq(notes[k], reference_note)
              /\ notes[k].frequency = reference_freq

\* the ratios of the nine concrete temperament definitions
DefinitionRatios ==
    {IF c \in RatioClasses THEN TableOf(c)
     ELSE CentsToRatios([i \in 1..Len(TableOf(c)) |-> CentVal(TableOf(c)[i])]) :
        c \in ConcreteClasses}

StrictlyIncreasing ==
    \A k \in 1..(Len(notes) - 1) : Less(notes[k].frequency, notes[k + 1].frequency)

\* C4: with the table of any of the nine concrete temperament definitions, the
\* computed frequencies are strictly increasing along the note sequence.
C4_FrequenciesStrictlyIncreasing ==
    (constructed /\ err = "" /\ ratios \in DefinitionRatios) => StrictlyIncreasing

\* C5: the same tone one octave higher has exactly double the frequency:
\* frequencies[j] = 2 * frequencies[j - 12] wherever both are computed.
C5_OctaveDoubles ==
    \A j \in (Len(TONES) + 1)..Len(notes) :
        (notes[j].frequency # None /\ notes[j - Len(TONES)].frequency # None)
            => notes[j].frequency = Mul(Pow2(1), notes[j - Len(TONES)].frequency)

\* C5 witness: a table of two octaves or more, fully computed, on which the
\* ratios, reference_freq and min_octave setters have acted.
C5_Witness ==
    /\ constructed
    /\ err = ""
    /\ Len(notes) >= 2 * Len(TONES)
    /\ \A k \in 1..Len(notes) : notes[k].frequency # None
    /\ ratios = UserRatios
    /\ reference_freq = Num(AltRefFreq)
    /\ min_octave # notes[1].octave

\* C7: a reference note whose octave lies outside min_octave..max_octave raises
\* no error, and every note of the table receives its frequency from
\* baseFreq = 2^(firstNote.octave - reference_note.octave) * reference_freq / ratios[r].
C7_OutOfRangeReferenceTolerated ==
    (/\ ratios # <<>>
     /\ reference_note.type = "Note"
     /\ (reference_note.octave < min_octave \/ reference_note.octave > max_octave))
        => /\ err = ""
           /\ LET r == PitchClass(reference_note.tone)
                  baseFreq ==
                      Div(Mul(Pow2(notes[1].octave - reference_note.octave),
                              reference_freq), ratios[r + 1])
              IN \A k \in 1..Len(notes) :
                    notes[k].frequency =
                        Mul(Mul(ratios[((k - 1) % Len(TONES)) + 1],
                                Pow2((k - 1) \div Len(TONES))), baseFreq)

\* C8: a reference note that is not a Note is rejected where it is supplied,
\* with the configuration error, before any frequency is computed: no
\* temperament ever holds one.
C8_NonNoteReferenceRejected ==
    reference_note.type # "Note"
        => /\ ~constructed
           /\ err = "ValueError: not a Note"
           /\ \A k \in 1..Len(notes) : notes[k].frequency = None

-----------------------------------------------------------------------------
(* Claims about the capture loop and pitch matching (checked under TunerSpec) *)

\* the chunk is above start_thresh
Loud(chunk) == SeqMax(chunk) > StartThresh

\* number of the last chunk read that was not above start_thresh (0 if none)
LastSilent ==
    LET silent == {i \in 1..readPos : ~Loud(arrivals[i])}
    IN IF silent = {} THEN 0 ELSE CHOOSE i \in silent : \A j \in silent : j <= i

\* chunks read since the last silent one
RunLen == readPos - LastSilent

\* the samples of those chunks, in arrival order
RunSamples ==
    [i \in 1..(RunLen * ChunkLen) |->
        arrivals[LastSilent + 1 + (i - 1) \div ChunkLen][((i - 1) % ChunkLen) + 1]]

\* C9: at every iteration boundary the buffer and the history hold exactly the
\* current voicing: one history entry and ChunkLen samples, in arrival order,
\* per chunk read since the last chunk that was not above start_thresh.
C9_BufferAndHistoryHoldVoicing ==
    /\ Len(best_freq) = RunLen
    /\ Len(data) = RunLen * ChunkLen
    /\ data = RunSamples

\* C9 witness: a loud chunk, then a silent one (both emptied), then a loud one.
C9_Witness ==
    /\ readPos = 3
    /\ Loud(arrivals[1])
    /\ ~Loud(arrivals[2])
    /\ Loud(arrivals[3])
    /\ Len(best_freq) = 1
    /\ data = arrivals[3]

\* C6: when the peak or the matched table frequency is zero or negative, the
\* cents deviation is 0 and the pitch-matching pass completes normally.
C6_DomainErrorGivesZeroCents ==
    (graph_out.called /\ (graph_out.freq <= 0 \/ graph_out.desired_freq <= 0))
        => /\ loop_err = ""
           /\ graph_out.printed
           /\ graph_out.cents = 0

\* round(x): to the nearest whole cent
RoundCents(dev) == (dev + DevPerCent \div 2) \div DevPerCent

\* C10: for a positive peak and the nearest table frequency, the reported cents
\* deviation is 1200 * log2(peak / desired) rounded to the nearest integer.
C10_CentsRoundedToNearest ==
    (graph_out.called /\ graph_out.freq > 0 /\ graph_out.desired_freq > 0)
        => /\ graph_out.printed
           /\ graph_out.desired_idx = ArgMin(TableHz, graph_out.freq).idx
           /\ graph_out.cents =
                 RoundCents(Log2Dev(graph_out.freq, graph_out.desired_freq))

=============================================================================
